---- MODULE Spec2Model ----
(***************************************************************************)
(* ProofGate guardrail gate for Eliza agents.                              *)
(*                                                                         *)
(* The module models one validation invocation through each entry point   *)
(* of the repository:                                                      *)
(*   "handler"   the PROOFGATE_VALIDATE action of ProofGatePlugin          *)
(*               (src/src/index.ts, actions getter),                       *)
(*   "validate"  ProofGatePlugin.validateTransaction called directly       *)
(*               (src/src/index.ts),                                       *)
(*   "action"    validateTransactionAction.handler, configured from the    *)
(*               runtime settings (src/src/actions/validate.ts).           *)
(*                                                                         *)
(* JavaScript values are tagged records, so that truthiness (||, !) and    *)
(* absent fields are computed as the code computes them.  A string that    *)
(* the code builds from a template is a sequence of fragments: the         *)
(* template's literals and the interpolated values, in order.  The emoji   *)
(* that open the message literals are left out of the fragments.           *)
(***************************************************************************)
EXTENDS Integers, Sequences, FiniteSets, TLC

VARIABLES
    pc,         \* position of the invocation
    source,     \* "none" | "plugin" (createProofGatePlugin) | "env" (runtime settings)
    settings,   \* the raw configuration the host supplied
    config,     \* the resolved configuration (this.config / getProofGateConfig's result)
    entry,      \* the entry point invoked
    options,    \* the call's arguments (transaction fields, per-call ids)
    hasCallback,\* whether the host passed a callback to the handler
    sent,       \* the POST /validate bodies this invocation has sent, in order
    response,   \* what the network call settled with
    ret,        \* how the entry point ended: value returned or error thrown
    messages,   \* the messages delivered through the callback, in order
    calls,      \* invocations made so far on this configuration
    peer        \* a second invocation on the same plugin, in flight beside the first

vars == <<pc, source, settings, config, entry, options, hasCallback, sent,
          response, ret, messages, calls, peer>>

----------------------------------------------------------------------------
(* JavaScript values *)

Undef == [t |-> "undef"]
Null == [t |-> "null"]
Omitted == [t |-> "omitted"]
Bool(b) == [t |-> "bool", b |-> b]
Str(s) == [t |-> "str", s |-> s]
Num(n) == [t |-> "num", n |-> n]

\* ToBoolean: what `!v`, `v || w` and `if (v)` test.
Truthy(v) ==
    CASE v.t = "bool" -> v.b
      [] v.t = "str" -> v.s /= ""
      [] v.t = "num" -> v.n /= 0
      [] OTHER -> FALSE

\* a || b
Or(a, b) == IF Truthy(a) THEN a ELSE b

\* String(v), as a template literal `${v}` renders it.
Render(v) ==
    CASE v.t = "str" -> v.s
      [] v.t = "num" -> ToString(v.n)
      [] v.t = "bool" -> (IF v.b THEN "true" ELSE "false")
      [] v.t = "null" -> "null"
      [] OTHER -> "undefined"

\* An own property of an object literal: an omitted key reads as undefined.
Get(v) == IF v.t = "omitted" THEN Undef ELSE v

\* A string kept as its characters, where the code inspects them.
Chars(c) == [t |-> "chars", c |-> c]
IsString(v) == v.t = "str" \/ v.t = "chars"
NaN == [t |-> "nan"]

\* String.prototype.startsWith
StartsWith(c, prefix) ==
    /\ Len(c) >= Len(prefix)
    /\ SubSeq(c, 1, Len(prefix)) = prefix

KeyPrefix == <<"p", "g", "_">>

----------------------------------------------------------------------------
(* Configuration: ProofGatePlugin's constructor *)

\* Keys of a configuration and of a call, in one record shape.
NoConfig ==
    [apiKey |-> Undef, guardrailId |-> Undef, chainId |-> Undef,
     autoBlock |-> Undef, debug |-> Undef]

DefaultChainId == 56
EnvDefaultChainId == 8453

PluginDefaults ==
    [apiKey |-> Undef, guardrailId |-> Str(""), chainId |-> Num(DefaultChainId),
     autoBlock |-> Bool(TRUE), debug |-> Bool(FALSE)]

\* { ...defaults, ...config }: a key the caller's object holds wins, also
\* when its value is undefined; an omitted key keeps the default.
Spread(defaults, cfg) ==
    [k \in DOMAIN defaults |->
        IF cfg[k].t = "omitted" THEN defaults[k] ELSE cfg[k]]

KeyTruthy(v) == v.t = "chars" /\ Len(v.c) > 0

RequiredKeyError == <<"[ProofGate] API key is required. Get one at https://www.proofgate.xyz/dashboard">>
KeyFormatError == <<"[ProofGate] Invalid API key format. Keys start with \"pg_\"">>

\* The constructor without its prefix test.
ConstructorErrorNoPrefix(cfg) ==
    IF ~KeyTruthy(Get(cfg.apiKey)) THEN RequiredKeyError ELSE <<>>

\* The constructor's checks: <<>> when it does not throw, else the message.
ConstructorError(cfg) ==
    IF ~KeyTruthy(Get(cfg.apiKey)) THEN RequiredKeyError
    ELSE IF ~StartsWith(cfg.apiKey.c, KeyPrefix) THEN KeyFormatError
    ELSE <<>>

ConstructorConfig(cfg) == Spread(PluginDefaults, cfg)

----------------------------------------------------------------------------
(* Configuration: proofGateEnvSchema and getProofGateConfig *)

Digits == <<"0", "1", "2", "3", "4", "5", "6", "7", "8", "9">>
IsDigit(ch) == \E i \in 1..10 : Digits[i] = ch
DigitValue(ch) == (CHOOSE i \in 1..10 : Digits[i] = ch) - 1

RECURSIVE DecimalValue(_)
DecimalValue(c) ==
    IF c = <<>> THEN 0
    ELSE 10 * DecimalValue(SubSeq(c, 1, Len(c) - 1)) + DigitValue(c[Len(c)])

\* Number(string), for the integer literals the settings hold: "" is 0,
\* an optional sign and digits are their value, anything else is NaN.
ToNumber(c) ==
    IF c = <<>> THEN Num(0)
    ELSE IF \A i \in 1..Len(c) : IsDigit(c[i]) THEN Num(DecimalValue(c))
    ELSE IF /\ c[1] = "-" /\ Len(c) > 1
            /\ \A i \in 2..Len(c) : IsDigit(c[i])
         THEN Num(0 - DecimalValue(Tail(c)))
    ELSE NaN

\* z.coerce.number(): Number(input) for any input that reaches it.
CoerceNumber(v) ==
    CASE v.t = "chars" -> ToNumber(v.c)
      [] v.t = "num" -> v
      [] v.t = "null" -> Num(0)
      [] OTHER -> NaN

\* Each field's schema: the issues it raises (a set of paths) and its value.
EnvKeyOk(v) == v.t = "chars" /\ Len(v.c) >= 1 /\ StartsWith(v.c, KeyPrefix)
EnvGuardrailOk(v) == v.t = "undef" \/ IsString(v)
EnvChainValue(v) == IF v.t = "undef" THEN Num(EnvDefaultChainId) ELSE CoerceNumber(v)
EnvChainOk(v) == EnvChainValue(v).t = "num" /\ EnvChainValue(v).n > 0
EnvFlagOk(v) == v.t = "undef" \/ v = Str("true") \/ v = Str("false")
EnvFlagValue(v, dflt) == Bool((IF v.t = "undef" THEN dflt ELSE v.s) = "true")

EnvIssues(raw) ==
    (IF EnvKeyOk(raw.apiKey) THEN {} ELSE {"PROOFGATE_API_KEY"})
    \cup (IF EnvGuardrailOk(raw.guardrailId) THEN {} ELSE {"PROOFGATE_GUARDRAIL_ID"})
    \cup (IF EnvChainOk(raw.chainId) THEN {} ELSE {"PROOFGATE_CHAIN_ID"})
    \cup (IF EnvFlagOk(raw.autoBlock) THEN {} ELSE {"PROOFGATE_AUTO_BLOCK"})
    \cup (IF EnvFlagOk(raw.debug) THEN {} ELSE {"PROOFGATE_DEBUG"})

\* getProofGateConfig: throws when safeParse reports issues.  The message
\* goes on with the issues' paths and texts, which are left out here.
EnvConfigError(raw) ==
    IF EnvIssues(raw) = {} THEN <<>>
    ELSE <<"[ProofGate] Invalid configuration: ">>

EnvConfig(raw) ==
    [apiKey |-> raw.apiKey,
     guardrailId |-> raw.guardrailId,
     chainId |-> EnvChainValue(raw.chainId),
     autoBlock |-> EnvFlagValue(raw.autoBlock, "true"),
     debug |-> EnvFlagValue(raw.debug, "false")]

----------------------------------------------------------------------------
(* The request *)

NoOptions ==
    [from |-> Undef, to |-> Undef, data |-> Undef, value |-> Undef,
     guardrailId |-> Undef, chainId |-> Undef]

\* if (!from || !to || !data)
Incomplete(o) == ~Truthy(o.from) \/ ~Truthy(o.to) \/ ~Truthy(o.data)

\* validateTransaction's JSON body; `value = '0'` defaults an undefined value.
\* JSON.stringify leaves out a key whose value is undefined.
ValidateBody(cfg, req) ==
    [from |-> req.from,
     to |-> req.to,
     data |-> req.data,
     value |-> IF req.value.t = "undef" THEN Str("0") ELSE req.value,
     guardrailId |-> Or(Or(req.guardrailId, cfg.guardrailId), Undef),
     chainId |-> Or(req.chainId, cfg.chainId)]

\* The request the plugin's action handler hands to validateTransaction.
HandlerRequest(o) ==
    [from |-> o.from, to |-> o.to, data |-> o.data,
     value |-> Or(o.value, Str("0")),
     guardrailId |-> Undef, chainId |-> Undef]

\* validateTransaction keeping the call's ids as the plugin's defaults.
ConfigAfterCallStoresIds(cfg, req) ==
    [cfg EXCEPT !.guardrailId = Or(req.guardrailId, cfg.guardrailId),
                !.chainId = Or(req.chainId, cfg.chainId)]

\* this.config once validateTransaction(req) has run: the method reads
\* this.config and assigns to none of its fields.
ConfigAfterCall(cfg, req) == cfg

\* The action handler's body with the configured ids taking precedence.
ActionBodyConfigFirst(cfg, o) ==
    [from |-> o.from,
     to |-> o.to,
     data |-> o.data,
     value |-> Or(o.value, Str("0")),
     guardrailId |-> Or(Or(cfg.guardrailId, o.guardrailId), Undef),
     chainId |-> Or(cfg.chainId, o.chainId)]

\* validateTransactionAction.handler's JSON body.
ActionBody(cfg, o) ==
    [from |-> o.from,
     to |-> o.to,
     data |-> o.data,
     value |-> Or(o.value, Str("0")),
     guardrailId |-> Or(Or(o.guardrailId, cfg.guardrailId), Undef),
     chainId |-> Or(o.chainId, cfg.chainId)]

RequestBody(e, cfg, o) ==
    CASE e = "validate" -> ValidateBody(cfg, o)
      [] e = "handler" -> ValidateBody(cfg, HandlerRequest(o))
      [] OTHER -> ActionBody(cfg, o)

----------------------------------------------------------------------------
(* The response *)

\* What response.json() yields: a rejection ("unparseable"), null, or an
\* object whose fields are JavaScript values (undefined when missing).
\* `complete` stands for evidenceUri, authenticated and tier being present.
NoBody ==
    [t |-> "none", error |-> Undef, message |-> Undef, result |-> Undef,
     safe |-> Undef, validationId |-> Undef, reason |-> Undef,
     complete |-> FALSE]

Unparseable == [NoBody EXCEPT !.t = "unparseable"]
NullBody == [NoBody EXCEPT !.t = "null"]

NoResponse == [kind |-> "none", status |-> 0, text |-> "", body |-> NoBody]

\* response.ok
Ok(resp) == resp.status >= 200 /\ resp.status <= 299

NoRet == [kind |-> "none", value |-> Undef, result |-> NoBody, message |-> <<>>]
Returned(v) == [kind |-> "returned", value |-> v, result |-> NoBody, message |-> <<>>]
ReturnedResult(b) == [kind |-> "returned", value |-> Undef, result |-> b, message |-> <<>>]
Threw(m) == [kind |-> "threw", value |-> Undef, result |-> NoBody, message |-> m]
ThrewWith(m, b) == [kind |-> "threw", value |-> Undef, result |-> b, message |-> m]

\* TypeError of a property read on null.
NullRead(prop) == <<"Cannot read properties of null (reading '", prop, "')">>
JsonError == <<"Unexpected token < in JSON at position 0">>

\* The upstream failure reported by its status alone.
UpstreamMessageStatusOnly(resp) == <<"HTTP ", ToString(resp.status)>>

\* The message of the error a non-success status throws.
UpstreamMessage(resp) ==
    LET error == IF resp.body.t = "unparseable"
                 THEN [NoBody EXCEPT !.t = "obj", !.error = Str("Unknown error")]
                 ELSE resp.body
    IN  IF error.t = "null" THEN NullRead("error")
        ELSE IF Truthy(error.error) THEN <<Render(error.error)>>
        ELSE IF Truthy(error.message) THEN <<Render(error.message)>>
        ELSE <<"HTTP ", ToString(resp.status)>>

BlockedError(result) == <<"[ProofGate] Transaction blocked: ", Render(result.reason)>>

\* ProofGatePlugin.validateTransaction from the settled fetch on.
ValidateOutcome(cfg, resp) ==
    IF resp.kind = "reject" THEN Threw(<<resp.text>>)
    ELSE IF ~Ok(resp) THEN Threw(UpstreamMessage(resp))
    ELSE IF resp.body.t = "unparseable" THEN Threw(JsonError)
    ELSE IF resp.body.t = "null" THEN
        IF Truthy(cfg.debug) THEN Threw(NullRead("validationId"))
        ELSE IF Truthy(cfg.autoBlock) THEN Threw(NullRead("safe"))
        ELSE ReturnedResult(resp.body)
    ELSE IF Truthy(cfg.autoBlock) /\ ~Truthy(resp.body.safe)
        THEN ThrewWith(BlockedError(resp.body), resp.body)
    ELSE ReturnedResult(resp.body)

----------------------------------------------------------------------------
(* Messages *)

MissingText == <<"Transaction details required (from, to, data) for ProofGate validation.">>
ApprovedHead == "**Transaction Approved**"
BlockedHead == "**Transaction Blocked**"
ErrorHead == "**ProofGate Error:** "
PluginEvidence == "https://www.proofgate.xyz/evidence/"
ActionEvidence == "https://proofgate.xyz/evidence/"

VerdictText(head, result, link) ==
    <<head, "**Reason:** ", Render(result.reason),
      "**Validation ID:** ", Render(result.validationId),
      "**Evidence:** [View](", link, Render(result.validationId), ")">>

MissingMessage == [shape |-> "missing", text |-> MissingText]
\* The error message without the failure's text.
ErrorMessageNoText(m) == [shape |-> "error", text |-> <<"**ProofGate Error:** ">>]
ErrorMessage(m) == [shape |-> "error", text |-> <<ErrorHead>> \o m]
ApprovedMessage(result, link) ==
    [shape |-> "approved", text |-> VerdictText(ApprovedHead, result, link)]
BlockedMessage(result, link) ==
    [shape |-> "blocked", text |-> VerdictText(BlockedHead, result, link)]

\* A handler that never calls its callback.
DeliverNone(cb, msg) == <<>>

\* if (callback) callback(msg)
Deliver(cb, msg) == IF cb THEN <<msg>> ELSE <<>>

\* The approved message whatever the result.
VerdictMessageAlwaysApproved(result, link) == ApprovedMessage(result, link)

\* if (result.safe) approved else blocked
VerdictMessage(result, link) ==
    IF Truthy(result.safe) THEN ApprovedMessage(result, link)
    ELSE BlockedMessage(result, link)

----------------------------------------------------------------------------
(* The handlers from the settled fetch on: <<returned value, messages>> *)

\* PROOFGATE_VALIDATE of ProofGatePlugin: awaits validateTransaction,
\* reports, returns result.safe; its catch reports the error and returns false.
HandlerOutcome(cfg, cb, resp) ==
    LET v == ValidateOutcome(cfg, resp)
    IN  IF v.kind = "threw"
        THEN [ret |-> Returned(Bool(FALSE)), msgs |-> Deliver(cb, ErrorMessage(v.message))]
        ELSE IF v.result.t = "null"
        THEN [ret |-> Returned(Bool(FALSE)),
              msgs |-> Deliver(cb, ErrorMessage(NullRead("safe")))]
        ELSE [ret |-> Returned(v.result.safe),
              msgs |-> Deliver(cb, VerdictMessage(v.result, PluginEvidence))]

\* validateTransactionAction.handler.
ActionOutcome(cfg, cb, resp) ==
    LET fail(m) == [ret |-> Returned(Bool(FALSE)), msgs |-> Deliver(cb, ErrorMessage(m))]
        result == resp.body
    IN  IF resp.kind = "reject" THEN fail(<<resp.text>>)
        ELSE IF ~Ok(resp) THEN fail(UpstreamMessage(resp))
        ELSE IF result.t = "unparseable" THEN fail(JsonError)
        ELSE IF result.t = "null" THEN
            IF Truthy(cfg.debug) THEN fail(NullRead("validationId"))
            ELSE fail(NullRead("safe"))
        ELSE [ret |-> IF Truthy(cfg.autoBlock) /\ ~Truthy(result.safe)
                      THEN Returned(Bool(FALSE))
                      ELSE Returned(result.safe),
              msgs |-> Deliver(cb, VerdictMessage(result, ActionEvidence))]

----------------------------------------------------------------------------
(* Inputs *)

ApiKeys ==
    {Chars(<<>>), Chars(<<"s", "k", "_", "1">>), Chars(<<"p", "g", "_", "1">>)}

PluginSettings ==
    [apiKey : {Omitted} \cup ApiKeys,
     guardrailId : {Omitted, Str("g_cfg")},
     chainId : {Omitted, Num(0), Num(97)},
     autoBlock : {Omitted, Undef, Bool(TRUE), Bool(FALSE)},
     debug : {Omitted, Bool(TRUE)}]

EnvSettings ==
    [apiKey : {Undef} \cup ApiKeys,
     guardrailId : {Undef, Str("g_cfg")},
     chainId : {Undef, Chars(<<"0">>), Chars(<<"9", "7">>)},
     autoBlock : {Undef, Str("true"), Str("false"), Str("yes")},
     debug : {Undef, Str("true")}]

\* Transactions: complete, or with one of from, to, data absent.
Transactions ==
    {tx \in [from : {Undef, Str("0xAA")}, to : {Undef, Str("0xBB")},
             data : {Undef, Str("0x38ed1739")}] :
        Cardinality({k \in {"from", "to", "data"} : tx[k] = Undef}) <= 1}

Call(tx, value, guardrailId, chainId) ==
    [from |-> tx.from, to |-> tx.to, data |-> tx.data, value |-> value,
     guardrailId |-> guardrailId, chainId |-> chainId]

Values == {Undef, Str("1")}
CallGuardrails == {Undef, Str("g_call")}
CallChains == {Undef, Num(5)}

\* validateTransaction's ValidationRequest and the action handler's options
\* carry per-call ids; the plugin handler's options do not.
FullCalls ==
    {Call(tx, v, g, c) : tx \in Transactions, v \in Values,
                         g \in CallGuardrails, c \in CallChains}
PlainCalls == {Call(tx, v, Undef, Undef) : tx \in Transactions, v \in Values}

Verdicts == {Str("PASS"), Str("FAIL"), Str("PENDING")}

\* Success bodies: every result and safe, at most one other field missing.
VerdictBodies ==
    {[NoBody EXCEPT !.t = "obj", !.result = r, !.safe = sf,
                    !.validationId = f[1], !.reason = f[2], !.complete = f[3]] :
        r \in Verdicts \cup {Undef},
        sf \in {Undef, Bool(TRUE), Bool(FALSE)},
        f \in {<<Str("val_1"), Str("within limit"), TRUE>>,
               <<Undef, Str("within limit"), TRUE>>,
               <<Str("val_1"), Undef, TRUE>>,
               <<Str("val_1"), Str("within limit"), FALSE>>}}

ErrorBodies ==
    {[NoBody EXCEPT !.t = "obj", !.error = e, !.message = m] :
        e \in {Undef, Str("Quota exceeded. Upgrade to Pro")},
        m \in {Undef, Str("Too many requests")}}

ErrorStatuses == {429, 500}
OkStatuses == {200}

Responses ==
    {[NoResponse EXCEPT !.kind = "reject", !.text = "fetch failed"]}
    \cup {[NoResponse EXCEPT !.kind = "http", !.status = st, !.body = b] :
            st \in ErrorStatuses,
            b \in {Unparseable, NullBody} \cup ErrorBodies}
    \cup {[NoResponse EXCEPT !.kind = "http", !.status = st, !.body = b] :
            st \in OkStatuses,
            b \in {Unparseable, NullBody} \cup VerdictBodies}

----------------------------------------------------------------------------
(* The state machine *)

\* The locals of the second invocation; none is running.
NoPeer ==
    [pc |-> "idle", entry |-> "none", options |-> NoOptions, hasCallback |-> FALSE,
     sent |-> <<>>, response |-> NoResponse, ret |-> NoRet, messages |-> <<>>,
     calls |-> 0]

Init ==
    /\ pc = "start"
    /\ source = "none"
    /\ settings = NoConfig
    /\ config = NoConfig
    /\ entry = "none"
    /\ options = NoOptions
    /\ hasCallback = FALSE
    /\ sent = <<>>
    /\ response = NoResponse
    /\ ret = NoRet
    /\ messages = <<>>
    /\ calls = 0
    /\ peer = NoPeer

\* createProofGatePlugin(raw): the constructor throws or resolves the config.
CreatePlugin(raw) ==
    /\ pc = "start"
    /\ source' = "plugin"
    /\ settings' = raw
    /\ IF ConstructorError(raw) /= <<>>
       THEN /\ pc' = "failed"
            /\ ret' = Threw(ConstructorError(raw))
            /\ config' = config
       ELSE /\ pc' = "ready"
            /\ ret' = ret
            /\ config' = ConstructorConfig(raw)
    /\ UNCHANGED <<entry, options, hasCallback, sent, response, messages, calls,
                   peer>>

\* The host registers validateTransactionAction with a runtime whose
\* settings are raw; they are read at each handler invocation.
UseRuntime(raw) ==
    /\ pc = "start"
    /\ source' = "env"
    /\ settings' = raw
    /\ pc' = "ready"
    /\ UNCHANGED <<config, entry, options, hasCallback, sent, response, ret,
                   messages, calls, peer>>

\* Number of invocations the host makes on one configuration.
MaxCalls == 2

\* An entry point of src can be invoked once its configuration exists;
\* each invocation starts with fresh locals.
CanCall(src) ==
    /\ pc = "ready"
    /\ source = src
    /\ calls < MaxCalls

\* plugin.validateTransaction(req), up to the fetch.
CallValidate(req) ==
    /\ CanCall("plugin")
    /\ calls' = calls + 1
    /\ entry' = "validate"
    /\ options' = req
    /\ hasCallback' = FALSE
    /\ sent' = <<>>
    /\ response' = NoResponse
    /\ ret' = NoRet
    /\ messages' = <<>>
    /\ pc' = "fetch"
    /\ config' = ConfigAfterCall(config, req)
    /\ UNCHANGED <<source, settings, peer>>

\* The plugin's PROOFGATE_VALIDATE handler, up to the fetch or its early return.
CallHandler(o, cb) ==
    /\ CanCall("plugin")
    /\ calls' = calls + 1
    /\ entry' = "handler"
    /\ options' = o
    /\ hasCallback' = cb
    /\ sent' = <<>>
    /\ response' = NoResponse
    /\ IF Incomplete(o)
       THEN /\ messages' = Deliver(cb, MissingMessage)
            /\ ret' = Returned(Bool(FALSE))
            /\ pc' = "done"
            /\ config' = config
       ELSE /\ messages' = <<>>
            /\ ret' = NoRet
            /\ pc' = "fetch"
            /\ config' = ConfigAfterCall(config, HandlerRequest(o))
    /\ UNCHANGED <<source, settings, peer>>

\* validateTransactionAction.handler, up to the fetch or its early return.
CallAction(o, cb) ==
    /\ CanCall("env")
    /\ calls' = calls + 1
    /\ entry' = "action"
    /\ options' = o
    /\ hasCallback' = cb
    /\ sent' = <<>>
    /\ response' = NoResponse
    /\ IF EnvConfigError(settings) /= <<>>
       THEN /\ messages' = Deliver(cb, ErrorMessage(EnvConfigError(settings)))
            /\ ret' = Returned(Bool(FALSE))
            /\ pc' = "done"
            /\ config' = config
       ELSE /\ config' = EnvConfig(settings)
            /\ IF Incomplete(o)
               THEN /\ messages' = Deliver(cb, MissingMessage)
                    /\ ret' = Returned(Bool(FALSE))
                    /\ pc' = "done"
               ELSE /\ messages' = <<>>
                    /\ ret' = NoRet
                    /\ pc' = "fetch"
    /\ UNCHANGED <<source, settings, peer>>

\* fetch(`${apiUrl}/validate`, {method: 'POST', ...}): the request leaves.
Fetch ==
    /\ pc = "fetch"
    /\ sent' = Append(sent, RequestBody(entry, config, options))
    /\ pc' = "awaiting"
    /\ UNCHANGED <<source, settings, config, entry, options, hasCallback,
                   response, ret, messages, calls, peer>>

\* Where the invocation stands once the settled call has been handled: the
\* catch blocks rethrow or return; nothing loops back to the fetch.
AfterSettleRetry(resp) == IF resp.kind = "reject" THEN "fetch" ELSE "done"

AfterSettle(resp) == "done"

\* The network call settles with resp and the entry point runs to its end.
Settle(resp) ==
    /\ pc = "awaiting"
    /\ response' = resp
    /\ pc' = AfterSettle(resp)
    /\ CASE entry = "validate" ->
              /\ ret' = ValidateOutcome(config, resp)
              /\ messages' = messages
         [] entry = "handler" ->
              /\ ret' = HandlerOutcome(config, hasCallback, resp).ret
              /\ messages' = messages \o HandlerOutcome(config, hasCallback, resp).msgs
         [] OTHER ->
              /\ ret' = ActionOutcome(config, hasCallback, resp).ret
              /\ messages' = messages \o ActionOutcome(config, hasCallback, resp).msgs
    /\ UNCHANGED <<source, settings, config, entry, options, hasCallback, sent,
                   calls, peer>>

\* The host has taken the settled invocation's result; its locals are gone
\* and the configuration stays as it was.
Return ==
    /\ pc = "done"
    /\ pc' = "ready"
    /\ entry' = "none"
    /\ options' = NoOptions
    /\ hasCallback' = FALSE
    /\ sent' = <<>>
    /\ response' = NoResponse
    /\ ret' = NoRet
    /\ messages' = <<>>
    /\ config' = IF source = "env" THEN NoConfig ELSE config
    /\ UNCHANGED <<source, settings, calls, peer>>

Next ==
    \/ \E raw \in PluginSettings : CreatePlugin(raw)
    \/ \E raw \in EnvSettings : UseRuntime(raw)
    \/ \E req \in FullCalls : CallValidate(req)
    \/ \E o \in PlainCalls, cb \in BOOLEAN : CallHandler(o, cb)
    \/ \E o \in FullCalls, cb \in BOOLEAN : CallAction(o, cb)
    \/ Fetch
    \/ \E resp \in Responses : Settle(resp)
    \/ Return

Spec == Init /\ [][Next]_vars

----------------------------------------------------------------------------
(* Two invocations in flight on one plugin *)

\* A second call can start on the plugin while the first is anywhere
\* between its start and its end: each await yields to the host.
PeerCanCall ==
    /\ source = "plugin"
    /\ pc \in {"ready", "fetch", "awaiting", "done"}
    /\ peer.pc = "idle"
    /\ peer.calls < MaxCalls

\* plugin.validateTransaction(req) of the second invocation, up to the fetch.
PeerCallValidate(req) ==
    /\ PeerCanCall
    /\ peer' = [NoPeer EXCEPT !.pc = "fetch", !.entry = "validate",
                              !.options = req, !.calls = peer.calls + 1]
    /\ config' = ConfigAfterCall(config, req)
    /\ UNCHANGED <<pc, source, settings, entry, options, hasCallback, sent,
                   response, ret, messages, calls>>

\* The PROOFGATE_VALIDATE handler of the second invocation, up to the fetch
\* or its early return.
PeerCallHandler(o, cb) ==
    /\ PeerCanCall
    /\ IF Incomplete(o)
       THEN /\ peer' = [NoPeer EXCEPT !.pc = "done", !.entry = "handler",
                                      !.options = o, !.hasCallback = cb,
                                      !.messages = Deliver(cb, MissingMessage),
                                      !.ret = Returned(Bool(FALSE)),
                                      !.calls = peer.calls + 1]
            /\ config' = config
       ELSE /\ peer' = [NoPeer EXCEPT !.pc = "fetch", !.entry = "handler",
                                      !.options = o, !.hasCallback = cb,
                                      !.calls = peer.calls + 1]
            /\ config' = ConfigAfterCall(config, HandlerRequest(o))
    /\ UNCHANGED <<pc, source, settings, entry, options, hasCallback, sent,
                   response, ret, messages, calls>>

\* The second invocation's request leaves, built from this.config as it is now.
PeerFetch ==
    /\ peer.pc = "fetch"
    /\ peer' = [peer EXCEPT
                    !.sent = Append(@, RequestBody(peer.entry, config, peer.options)),
                    !.pc = "awaiting"]
    /\ UNCHANGED <<pc, source, settings, config, entry, options, hasCallback,
                   sent, response, ret, messages, calls>>

\* The second invocation's network call settles and it runs to its end.
PeerSettle(resp) ==
    /\ peer.pc = "awaiting"
    /\ peer' =
        IF peer.entry = "validate"
        THEN [peer EXCEPT !.response = resp, !.pc = AfterSettle(resp),
                          !.ret = ValidateOutcome(config, resp)]
        ELSE [peer EXCEPT !.response = resp, !.pc = AfterSettle(resp),
                          !.ret = HandlerOutcome(config, peer.hasCallback, resp).ret,
                          !.messages = @ \o HandlerOutcome(config, peer.hasCallback, resp).msgs]
    /\ UNCHANGED <<pc, source, settings, config, entry, options, hasCallback,
                   sent, response, ret, messages, calls>>

\* The host has taken the second invocation's result.
PeerReturn ==
    /\ peer.pc = "done"
    /\ peer' = [NoPeer EXCEPT !.calls = peer.calls]
    /\ UNCHANGED <<pc, source, settings, config, entry, options, hasCallback,
                   sent, response, ret, messages, calls>>

\* The configurations, requests and upstream answers of the two invocations.
SharedKey == Chars(<<"p", "g", "_", "1">>)
SharedSettings ==
    [apiKey : {SharedKey},
     guardrailId : {Str("g_cfg")},
     chainId : {Num(97)},
     autoBlock : {Omitted, Bool(FALSE)},
     debug : {Omitted}]
SwapTx == [from |-> Str("0xAA"), to |-> Str("0xBB"), data |-> Str("0x38ed1739")]
NoDataTx == [SwapTx EXCEPT !.data = Undef]
SharedRequests ==
    {Call(SwapTx, Undef, g, c) : g \in CallGuardrails, c \in CallChains}
SharedOptions == {Call(tx, Undef, Undef, Undef) : tx \in {SwapTx, NoDataTx}}
Answer(st, b) == [NoResponse EXCEPT !.kind = "http", !.status = st, !.body = b]
Verdict(r, sf) ==
    [NoBody EXCEPT !.t = "obj", !.result = Str(r), !.safe = Bool(sf),
                   !.validationId = Str("val_1"), !.reason = Str("within limit"),
                   !.complete = TRUE]
SharedResponses ==
    {[NoResponse EXCEPT !.kind = "reject", !.text = "fetch failed"],
     Answer(429, [NoBody EXCEPT !.t = "obj",
                                !.error = Str("Quota exceeded. Upgrade to Pro")]),
     Answer(200, Verdict("PASS", TRUE)),
     Answer(200, Verdict("FAIL", FALSE))}

SharedNext ==
    \/ \E raw \in SharedSettings : CreatePlugin(raw)
    \/ \E req \in SharedRequests : CallValidate(req)
    \/ \E o \in SharedOptions, cb \in BOOLEAN : CallHandler(o, cb)
    \/ Fetch
    \/ \E resp \in SharedResponses : Settle(resp)
    \/ Return
    \/ \E req \in SharedRequests : PeerCallValidate(req)
    \/ \E o \in SharedOptions, cb \in BOOLEAN : PeerCallHandler(o, cb)
    \/ PeerFetch
    \/ \E resp \in SharedResponses : PeerSettle(resp)
    \/ PeerReturn

SharedSpec == Init /\ [][SharedNext]_vars

----------------------------------------------------------------------------
(* Vocabulary of the properties *)

Done == pc = "done"
IsHandler == entry \in {"handler", "action"}

\* The decision: a handler returned a truthy value; validateTransaction
\* returned to its caller instead of throwing.
Allowed ==
    /\ ret.kind = "returned"
    /\ entry = "validate" \/ Truthy(ret.value)

AutoBlockOn == Truthy(config.autoBlock)

\* A success response whose body holds every required field.
WellFormed(b) ==
    /\ b.t = "obj"
    /\ b.result \in Verdicts
    /\ b.validationId /= Undef
    /\ b.reason /= Undef
    /\ b.complete

Success == response.kind = "http" /\ Ok(response)

\* The invocation of a complete transaction, under a configuration whose
\* auto-block flag is a boolean, has ended.
Ended == Done /\ ~Incomplete(options) /\ config.autoBlock.t = "bool"

VerdictIs(r) ==
    /\ Ended
    /\ Success
    /\ WellFormed(response.body)
    /\ response.body.result = Str(r)

\* The invocation ended and no verdict was obtained.
NoVerdict == Done /\ ~(Success /\ WellFormed(response.body))

Contains(text, fragment) == \E i \in 1..Len(text) : text[i] = fragment

\* The text of the failure: the thrown error's message, or what follows the
\* error heading in the message delivered.
FailureText ==
    IF entry = "validate" THEN ret.message
    ELSE IF messages /= <<>> /\ messages[1].shape = "error" THEN Tail(messages[1].text)
    ELSE <<>>

----------------------------------------------------------------------------
(* Properties *)

\* C1: on every success response with a verdict, the ValidationResult the
\* gate returns, and the safe flag its decision and message rest on, is
\* result = PASS, whatever safe field the payload carries.
C1_SafeIsDerivedFromResult ==
    (Ended /\ Success /\ WellFormed(response.body)) =>
        LET pass == response.body.result = Str("PASS")
        IN  /\ (entry = "validate" /\ ret.result.t = "obj") => ret.result.safe = Bool(pass)
            /\ IsHandler => (Truthy(ret.value) => pass)
            /\ (IsHandler /\ messages /= <<>>) =>
                    (messages[1].shape = "approved" <=> pass)

\* C2: fail-closed: a handler invocation that ends without a verdict
\* returns false, with auto-block on or off.
C2_FailClosed ==
    (NoVerdict /\ IsHandler) => ~Allowed

\* C3: a FAIL verdict with auto-block enabled is denied: the handler returns
\* false and validateTransaction does not return normally.
C3_FailBlockedWhenAutoBlock ==
    (VerdictIs("FAIL") /\ AutoBlockOn) => ~Allowed

\* C4: a FAIL verdict with auto-block disabled is allowed (the handler
\* returns true) and the ValidationResult handed back has safe = false.
\* Stated for payloads whose safe field agrees with the result.
C4_FailAllowedWhenAutoBlockOff ==
    (VerdictIs("FAIL") /\ ~AutoBlockOn /\ response.body.safe = Bool(FALSE)) =>
        /\ Allowed
        /\ entry = "validate" => ret.result.safe = Bool(FALSE)

\* C5: a PASS verdict is allowed, with auto-block on or off and whatever
\* the payload's other fields, its own safe field included.
C5_PassAlwaysAllowed ==
    VerdictIs("PASS") => Allowed

\* C6: a PENDING verdict with auto-block enabled is denied whatever the
\* payload's safe field, and the call sends no further request.
C6_PendingBlockedWhenAutoBlock ==
    (VerdictIs("PENDING") /\ AutoBlockOn) => (~Allowed /\ Len(sent) = 1)

\* C7: with from, to or data absent no request is sent, the decision is
\* denied and the message asks for the transaction details, at every entry
\* point.  Stated for invocations whose configuration is valid.
C7_IncompleteNeverSent ==
    (entry /= "none" /\ Incomplete(options) /\ config /= NoConfig) =>
        /\ sent = <<>>
        /\ Done => (/\ ~Allowed
                    /\ hasCallback => messages = <<MissingMessage>>)

\* C8: an invocation sends at most one POST /validate request, whatever
\* the outcome.
C8_AtMostOneRequest ==
    /\ Len(sent) <= 1
    /\ (Done /\ response.kind /= "none") => Len(sent) = 1

C8_Witness ==
    /\ Done
    /\ response.kind = "reject"
    /\ Len(sent) = 1
    /\ calls = MaxCalls

\* C9: with auto-block enabled, a FAIL verdict reaches the user as the
\* blocked message, holding "Blocked", the reason and the validation id.
\* Stated for payloads whose safe field agrees with the result.
C9_FailShowsBlockedMessage ==
    (/\ VerdictIs("FAIL") /\ AutoBlockOn /\ IsHandler /\ hasCallback
     /\ response.body.safe = Bool(FALSE)) =>
        /\ Len(messages) = 1
        /\ messages[1].shape = "blocked"
        /\ Contains(messages[1].text, BlockedHead)
        /\ Contains(messages[1].text, Render(response.body.reason))
        /\ Contains(messages[1].text, Render(response.body.validationId))

\* C10: on a non-success status the failure message is the body's error
\* field, else its message field, else "HTTP <status>"; an error body that
\* cannot be parsed gives "HTTP <status>".
C10_UpstreamMessage ==
    (/\ Ended /\ response.kind = "http" /\ ~Ok(response)
     /\ response.body.t \in {"obj", "unparseable"}
     /\ entry = "validate" \/ hasCallback) =>
        FailureText =
            IF response.body.t = "obj" /\ response.body.error /= Undef
                THEN <<Render(response.body.error)>>
            ELSE IF response.body.t = "obj" /\ response.body.message /= Undef
                THEN <<Render(response.body.message)>>
            ELSE <<"HTTP ", ToString(response.status)>>

\* C11: a success response whose body lacks a required field ends on the
\* error path: validateTransaction throws, a handler returns false and the
\* message it delivers is the error message.
C11_MalformedIsError ==
    (Ended /\ Success /\ response.body.t = "obj" /\ ~WellFormed(response.body)) =>
        /\ ~Allowed
        /\ (IsHandler /\ hasCallback) =>
                (Len(messages) = 1 /\ messages[1].shape = "error")

\* A credential that is a non-empty string starting with pg_.
KeyValid(v) ==
    /\ v.t = "chars"
    /\ Len(v.c) >= 3
    /\ v.c[1] = "p" /\ v.c[2] = "g" /\ v.c[3] = "_"

\* C12: no request leaves with a credential that is empty or lacks the
\* pg_ prefix: with such a credential the constructor throws, and the
\* environment-configured handler ends before its fetch.
C12_NoRequestWithBadCredential ==
    /\ (sent /= <<>> \/ pc \in {"fetch", "awaiting"}) => KeyValid(config.apiKey)
    /\ (source = "plugin" /\ ~KeyValid(Get(settings.apiKey))) => pc = "failed"
    /\ (source = "env" /\ ~KeyValid(settings.apiKey)) =>
            (sent = <<>> /\ pc \in {"ready", "done"} /\ ~Allowed)

C12_Witness ==
    /\ pc = "failed"
    /\ source = "plugin"
    /\ settings.apiKey = Chars(<<"s", "k", "_", "1">>)
    /\ ret.message = KeyFormatError
    /\ sent = <<>>

\* C13: when the caller gives autoBlock no boolean value (the key omitted,
\* or present and undefined) the resolved configuration has autoBlock true.
C13_AutoBlockDefaultsOn ==
    (/\ config /= NoConfig
     /\ settings.autoBlock \in {Omitted, Undef}) => config.autoBlock = Bool(TRUE)

\* C14: every request sent carries a chainId that is a positive integer.
C14_ChainIdPositive ==
    ~Incomplete(options) =>
        \A i \in 1..Len(sent) :
            /\ sent[i].chainId.t = "num"
            /\ sent[i].chainId.n > 0

\* What the call gave, else what the configuration holds, else nothing.
GuardrailOf(o, cfg) ==
    IF o.guardrailId /= Undef THEN o.guardrailId
    ELSE IF cfg.guardrailId \notin {Undef, Str("")} THEN cfg.guardrailId
    ELSE Undef

ChainOf(o, cfg) == IF o.chainId /= Undef THEN o.chainId ELSE cfg.chainId

BaseChainId == 8453

\* C16: when neither the call nor the configuration supplies a chain id,
\* the request carries chainId 8453.
C16_DefaultChainIsBase ==
    (/\ sent /= <<>>
     /\ ~Incomplete(options)
     /\ options.chainId = Undef
     /\ settings.chainId \in {Omitted, Undef}) => sent[1].chainId = Num(BaseChainId)

\* C17: when the network call rejects, the handler returns false without
\* throwing, and the message it delivers contains the transport error's text.
C17_UnreachableFailsClosed ==
    (Done /\ IsHandler /\ response.kind = "reject") =>
        /\ ret = Returned(Bool(FALSE))
        /\ hasCallback =>
            /\ Len(messages) = 1
            /\ messages[1].shape = "error"
            /\ Contains(messages[1].text, response.text)

C17_Witness ==
    /\ Done
    /\ entry = "handler"
    /\ hasCallback
    /\ response.kind = "reject"
    /\ ret = Returned(Bool(FALSE))
    /\ messages = <<[shape |-> "error", text |-> <<ErrorHead, "fetch failed">>]>>

Labels == {"approved", "blocked", "error", "missing"}

\* The outcome of a handler invocation: nothing is delivered before the end,
\* and at the end a supplied callback has received one labeled message, the
\* approved one whenever the handler allowed the transaction.
OneOutcome ==
    IsHandler =>
        /\ Len(messages) <= 1
        /\ Len(sent) <= 1
        /\ messages /= <<>> => Done
        /\ (Done /\ hasCallback) =>
            /\ Len(messages) = 1
            /\ messages[1].shape \in Labels
            /\ Allowed => messages[1].shape = "approved"
        /\ (Done /\ ~hasCallback) => messages = <<>>

\* A settled call ends the invocation, and an ended invocation only
\* returns: it sends and delivers nothing more.
OutcomeIsTerminal ==
    /\ (IsHandler /\ pc = "awaiting") => pc' = "done"
    /\ (IsHandler /\ Done) => pc' = "ready" \/ UNCHANGED <<pc, sent, messages, ret>>

\* C18: every handler invocation whose network call settles reaches exactly
\* one terminal outcome; with a callback, exactly one message is delivered,
\* labeled approved, blocked, error or missing details; afterwards the
\* invocation sends no request and delivers no further message.
C18_OneLabeledOutcome == []OneOutcome /\ [][OutcomeIsTerminal]_vars

C18_Witness ==
    /\ Done
    /\ entry = "action"
    /\ hasCallback
    /\ response.kind = "http"
    /\ Len(sent) = 1
    /\ Len(messages) = 1
    /\ messages[1].shape = "blocked"
    /\ ret = Returned(Bool(FALSE))

\* The resolved configuration with the debug flag the other way.
OtherDebug(cfg) == [cfg EXCEPT !.debug = Bool(~Truthy(cfg.debug))]

\* How this invocation ends under cfg, its request and the settled call
\* being what they are.
OutcomeUnder(cfg) ==
    CASE entry = "validate" ->
            [ret |-> ValidateOutcome(cfg, response), msgs |-> <<>>]
      [] entry = "handler" -> HandlerOutcome(cfg, hasCallback, response)
      [] OTHER -> ActionOutcome(cfg, hasCallback, response)

\* C19: the run that differs only in the debug flag sends the same request
\* and ends with the same returned value or thrown error, the same decision
\* and the same message.
C19_DebugNeverChangesOutcome ==
    (Ended /\ response.kind /= "none") =>
        /\ RequestBody(entry, OtherDebug(config), options) = sent[1]
        /\ OutcomeUnder(OtherDebug(config)) = [ret |-> ret, msgs |-> messages]

\* The string a failure body carries: its error, else its message.
UpstreamString(b) == IF Truthy(b.error) THEN b.error.s ELSE b.message.s

OutcomeOf(e, cfg, cb, resp) ==
    CASE e = "validate" -> [ret |-> ValidateOutcome(cfg, resp), msgs |-> <<>>]
      [] e = "handler" -> HandlerOutcome(cfg, cb, resp)
      [] OTHER -> ActionOutcome(cfg, cb, resp)

\* The plugin's configuration is the one its constructor resolved, and each
\* ended invocation's request and outcome are those of its own arguments
\* and its own response under that configuration.
Isolated ==
    LET built == ConstructorConfig(settings)
    IN  (source = "plugin" /\ pc \notin {"start", "failed"}) =>
            /\ config = built
            /\ (pc = "done" /\ response.kind /= "none") =>
                /\ sent = <<RequestBody(entry, built, options)>>
                /\ [ret |-> ret, msgs |-> messages]
                        = OutcomeOf(entry, built, hasCallback, response)
            /\ (peer.pc = "done" /\ peer.response.kind /= "none") =>
                /\ peer.sent = <<RequestBody(peer.entry, built, peer.options)>>
                /\ [ret |-> peer.ret, msgs |-> peer.messages]
                        = OutcomeOf(peer.entry, built, peer.hasCallback, peer.response)

\* A step of one invocation leaves the other's locals as they are, and no
\* step changes the configuration of a constructed plugin.
NoInterference ==
    /\ peer' /= peer =>
            UNCHANGED <<pc, entry, options, hasCallback, sent, response, ret, messages>>
    /\ <<pc, entry, options, hasCallback, sent, response, ret, messages>>' /=
       <<pc, entry, options, hasCallback, sent, response, ret, messages>> =>
            peer' = peer
    /\ (source = "plugin" /\ pc \notin {"start", "failed"}) => config' = config

\* C21: for every interleaving of two calls on one plugin, the
\* configuration is never modified after construction and each call's
\* request, decision and message depend only on its own request and its own
\* response; no call changes the other's outcome.
C21_CallsAreIsolated == []Isolated /\ [][NoInterference]_vars

C21_Witness ==
    /\ pc = "done"
    /\ entry = "handler"
    /\ hasCallback
    /\ ret = Returned(Bool(TRUE))
    /\ messages[1].shape = "approved"
    /\ sent[1].chainId = Num(97)
    /\ peer.pc = "done"
    /\ peer.entry = "validate"
    /\ peer.sent[1].chainId = Num(5)
    /\ peer.sent[1].guardrailId = Str("g_call")
    /\ peer.ret.kind = "threw"
    /\ peer.response.status = 429

\* C22: validateTransaction throws exactly when the network call fails (the
\* fetch rejects or the body cannot be read), the status is non-success, or
\* auto-block is on and the result is not safe; in the last case the error
\* carries the result; in every other case the result is returned, and with
\* auto-block off an obtained verdict is never thrown.
C22_ThrowsExactlyWhen ==
    (Ended /\ entry = "validate" /\ response.kind /= "none") =>
        LET failed == \/ response.kind = "reject"
                      \/ ~Ok(response)
                      \/ response.body.t = "unparseable"
            blocked == ~failed /\ AutoBlockOn /\ ~Truthy(response.body.safe)
        IN  /\ ret.kind = "threw" <=> (failed \/ blocked)
            /\ blocked => ret.result = response.body
            /\ ~(failed \/ blocked) => ret.result = response.body
            /\ (~failed /\ ~AutoBlockOn /\ WellFormed(response.body)) =>
                    ret.kind = "returned"

OtherHandler(e) == IF e = "handler" THEN "action" ELSE "handler"

Shapes(msgs) == [i \in 1..Len(msgs) |-> msgs[i].shape]

\* C24: under the same resolved settings, transaction fields and upstream
\* answer, the other action handler sends the same request body and ends
\* with the same boolean and the same message shape.
C24_HandlersEquivalent ==
    (/\ Ended
     /\ IsHandler
     /\ response.kind /= "none"
     /\ Success => /\ WellFormed(response.body)
                    /\ response.body.safe = Bool(response.body.result = Str("PASS"))
     /\ options.guardrailId = Undef
     /\ options.chainId = Undef) =>
        LET other == OutcomeOf(OtherHandler(entry), config, hasCallback, response)
        IN  /\ RequestBody(OtherHandler(entry), config, options) = sent[1]
            /\ other.ret = ret
            /\ Shapes(other.msgs) = Shapes(messages)

====
